---- MODULE Spec2Model ----
(***************************************************************************)
(* covid19_inference/data_retrieval.py: the two data-source adapters JHU   *)
(* and RKI.  One adapter instance is modelled at a time (kind); a method   *)
(* call runs from its call action to the step that returns or raises.      *)
(* The remote services are the environment: every request draws its        *)
(* outcome from a small set.                                               *)
(***************************************************************************)
EXTENDS Integers, Sequences, FiniteSets, TLC

VARIABLES
    kind,        \* the class that was instantiated: "JHU" or "RKI"
    pc,          \* position of the running call, "idle" between calls
    calls,       \* retrieval calls started so far; also the revision of the remote data
    result,      \* how the last call ended: "none", "returned" or the exception raised
    returned,    \* value handed back by the last call that returned
    before,      \* stored tables at the start of the running/last call
    fetch_failed,\* some request of the running/last call failed to fetch
    \* ---- RKI
    data,        \* self.data
    try_max,     \* argument of download_all_available_data
    unique_ids,  \* ids enumerated by the discovery query
    idx,         \* position of the for loop in unique_ids
    count_try,   \* failed tries for the current region
    df,          \* local table under construction
    data_flat,   \* records of the last accepted response
    n_data,      \* len(json_data['features']) of the last decoded response
    requests,    \* urlopen calls issued by the running/last call
    lastq,       \* id of the region queried last in this call (0: none yet)
    region_reqs, \* queries issued so far for region lastq
    resp,        \* outcome of the last per-region query
    \* ---- JHU
    confirmed,   \* self.confirmed
    deaths,      \* self.deaths
    recovered,   \* self.recovered
    op,          \* entry point of the running/last JHU call
    save,        \* its save_to_attributes argument: "omitted", "True", "False"
    done,        \* download_<metric> bodies completed by the running/last call
    \* ---- filtering accessors
    fcall        \* the last filter call: arguments and outcome

vars == <<kind, pc, calls, result, returned, before, fetch_failed,
          data, try_max, unique_ids, idx, count_try, df, data_flat, n_data,
          requests, lastq, region_reqs, resp,
          confirmed, deaths, recovered, op, save, done, fcall>>

rkiLocals == <<try_max, unique_ids, idx, count_try, df, data_flat, n_data,
               requests, lastq, region_reqs, resp>>
jhuVars == <<confirmed, deaths, recovered, op, save, done>>

----------------------------------------------------------------------------
(* Bounds *)

\* largest try_max a caller passes
MaxTry == 2
\* retrieval calls made on one adapter instance
MaxCalls == 2
\* dates of the stored tables: 1..MaxDate
MaxDate == 2

----------------------------------------------------------------------------
(* Program constants *)

landkreise_max == 412
QueryLimit == 5000
\* the divisor of the epoch timestamps, 1e3
MilliPerSecond == 1000

----------------------------------------------------------------------------
(* Values *)

\* an attribute that was only annotated in __init__, never assigned
Unset == [set |-> FALSE, rows |-> <<>>, date |-> "", date_ref |-> ""]

NoResp == [kind |-> "none", n |-> 0]
ErrResp == [kind |-> "error", n |-> 0]
Hits(n) == [kind |-> "hits", n |-> n]

NoValue == <<>>

Metrics == <<"confirmed", "deaths", "recovered">>

\* regions whose queries may fail or run over the limit in a run; the other
\* regions answer their first query with a single record
FlakyIds == {1, landkreise_max}

\* numbers of regions the discovery query may enumerate
NData == {0, landkreise_max - 1, landkreise_max, landkreise_max + 1}

\* outcomes of one per-region query
Responses(id) ==
    IF id \in FlakyIds
      THEN {ErrResp, Hits(QueryLimit + 1), Hits(QueryLimit)}
      ELSE {Hits(1)}

\* the records an accepted response carries, kept as one block that names
\* the region, the revision of the remote data and the try that fetched it
Records(id, ver, try, n) ==
    [src |-> "live", id |-> id, ver |-> ver, try |-> try, hits |-> n]

\* rows of data/rki_fallback_gzip.dat
FallbackRows == <<[src |-> "fallback", id |-> 0, ver |-> 0, try |-> 0, hits |-> 0]>>

----------------------------------------------------------------------------
(* RKI.download_all_available_data *)

\* df after the two date columns were derived from the epoch fields
LiveTable(rows) ==
    [set |-> TRUE, rows |-> rows, date |-> "Meldedatum", date_ref |-> "Refdatum"]

\* the bundled snapshot; both date columns are parsed from its 'date' field
FallbackTable ==
    [set |-> TRUE, rows |-> FallbackRows, date |-> "date", date_ref |-> "date"]

\* variant: the new table is started from the stored one
EmptyFrame_stored == data.rows

\* df = pd.DataFrame(columns=df_keys)
EmptyFrame == <<>>

\* variant: the threshold itself is sent to the fallback
UsesLiveData_strict(n) == n > landkreise_max

\* n_data >= landkreise_max
UsesLiveData(n) == n >= landkreise_max

\* variant: one try too many
TriesLeft_inclusive(c, t) == c <= t

\* while count_try < try_max
TriesLeft(c, t) == c < t

\* variant: a response of exactly 5000 records is rejected
LimitExceeded_inclusive(n) == n >= QueryLimit

\* if n_data > 5000: raise ValueError('Query limit exceeded')
LimitExceeded(n) == n > QueryLimit

\* variant: the check is off by one and misses the exhausted loop
Exhausted_late(c, t) == c = t + 1

\* if count_try == try_max: raise ValueError('Maximum limit of tries exceeded.')
Exhausted(c, t) == c = t

Snapshot ==
    [data |-> data, confirmed |-> confirmed, deaths |-> deaths,
     recovered |-> recovered]

\* variant: the table built so far is stored before the exception leaves
Raise_storing(exc) ==
    /\ pc' = "idle"
    /\ result' = exc
    /\ returned' = NoValue
    /\ data' = LiveTable(df)
    /\ UNCHANGED <<df, idx, count_try>>

\* an exception leaves the method: nothing is returned, self.data is not assigned
Raise(exc) ==
    /\ pc' = "idle"
    /\ result' = exc
    /\ returned' = NoValue
    /\ UNCHANGED <<data, df, idx, count_try>>

\* except: count_try += 1
Retry ==
    /\ count_try' = count_try + 1
    /\ UNCHANGED <<pc, result, returned, data, df, idx>>

\* self.data = df; return df
Store(rows) ==
    /\ pc' = "idle"
    /\ result' = "returned"
    /\ returned' = <<LiveTable(rows)>>
    /\ data' = LiveTable(rows)

\* df = pd.concat([df, df_temp]); then the next region, or the end of the loop
AppendAndAdvance(flat) ==
    LET df2 == df \o flat IN
    /\ df' = df2
    /\ IF idx < Len(unique_ids)
         THEN /\ idx' = idx + 1
              /\ count_try' = 0
              /\ UNCHANGED <<pc, result, returned, data>>
         ELSE /\ Store(df2)
              /\ UNCHANGED <<idx, count_try>>

\* the statements after the while loop
AfterLoop(c, flat) ==
    IF Exhausted(c, try_max)
      THEN Raise("ValueError")
      ELSE IF ~flat.bound
        THEN Raise("UnboundLocalError")
        ELSE AppendAndAdvance(flat.rows)

\* a caller invokes rki.download_all_available_data(try_max = tm)
RKI_download_all_available_data(tm) ==
    /\ kind = "RKI"
    /\ pc = "idle"
    /\ calls < MaxCalls
    /\ pc' = "discovery"
    /\ calls' = calls + 1
    /\ result' = "none"
    /\ returned' = NoValue
    /\ before' = Snapshot
    /\ fetch_failed' = FALSE
    /\ try_max' = tm
    /\ unique_ids' = <<>>
    /\ idx' = 0
    /\ count_try' = 0
    /\ df' = <<>>
    /\ data_flat' = [bound |-> FALSE, rows |-> <<>>]
    /\ n_data' = 0
    /\ requests' = 0
    /\ lastq' = 0
    /\ region_reqs' = 0
    /\ resp' = NoResp
    /\ UNCHANGED <<kind, data, jhuVars, fcall>>

\* the discovery request itself fails; it is outside every try block
RKI_DiscoveryFails ==
    /\ pc = "discovery"
    /\ requests' = requests + 1
    /\ fetch_failed' = TRUE
    /\ Raise("URLError")
    /\ UNCHANGED <<kind, calls, before, try_max, unique_ids, data_flat, n_data,
                   lastq, region_reqs, resp, jhuVars, fcall>>

\* the discovery request enumerates n region ids
RKI_Discovery(n) ==
    /\ pc = "discovery"
    /\ requests' = requests + 1
    /\ n_data' = n
    /\ unique_ids' = [i \in 1..n |-> i]
    /\ IF UsesLiveData(n)
         THEN IF n > 0
                THEN /\ pc' = "region"
                     /\ idx' = 1
                     /\ count_try' = 0
                     /\ df' = EmptyFrame
                     /\ UNCHANGED <<result, returned, data>>
                ELSE /\ Store(EmptyFrame)
                     /\ df' = EmptyFrame
                     /\ UNCHANGED <<idx, count_try>>
         ELSE /\ df' = FallbackRows
              /\ data' = FallbackTable
              /\ returned' = <<FallbackTable>>
              /\ result' = "returned"
              /\ pc' = "idle"
              /\ UNCHANGED <<idx, count_try>>
    /\ UNCHANGED <<kind, calls, before, fetch_failed, try_max, data_flat,
                   lastq, region_reqs, resp, jhuVars, fcall>>

\* one pass of the while loop: the query for the current region
RKI_Query(r) ==
    LET id == unique_ids[idx] IN
    /\ pc = "region"
    /\ TriesLeft(count_try, try_max)
    /\ r \in Responses(id)
    /\ requests' = requests + 1
    /\ lastq' = id
    /\ region_reqs' = IF lastq = id THEN region_reqs + 1 ELSE 1
    /\ resp' = r
    /\ IF r.kind = "error"
         THEN /\ fetch_failed' = TRUE
              /\ Retry
              /\ UNCHANGED <<n_data, data_flat>>
         ELSE /\ n_data' = r.n
              /\ UNCHANGED fetch_failed
              /\ IF LimitExceeded(r.n)
                   THEN /\ Retry
                        /\ UNCHANGED data_flat
                   ELSE LET flat == [bound |-> TRUE,
                                     rows |-> <<Records(id, calls, count_try, r.n)>>]
                        IN /\ data_flat' = flat
                           /\ AfterLoop(count_try, flat)
    /\ UNCHANGED <<kind, calls, before, try_max, unique_ids, jhuVars, fcall>>

\* the while condition is false: the loop ends without a break
RKI_LoopExit ==
    /\ pc = "region"
    /\ ~TriesLeft(count_try, try_max)
    /\ AfterLoop(count_try, data_flat)
    /\ UNCHANGED <<kind, calls, before, fetch_failed, try_max, unique_ids,
                   data_flat, n_data, requests, lastq, region_reqs, resp,
                   jhuVars, fcall>>

NextRKI ==
    \/ \E tm \in 0..MaxTry : RKI_download_all_available_data(tm)
    \/ RKI_DiscoveryFails
    \/ \E n \in NData : RKI_Discovery(n)
    \/ \E r \in {ErrResp} \cup {Hits(n) : n \in {1, QueryLimit, QueryLimit + 1}} :
          RKI_Query(r)
    \/ RKI_LoopExit

----------------------------------------------------------------------------
(* JHU: download_all_available_data, download_confirmed/deaths/recovered *)

\* keys, dates and cells are the content of a table: the (country, state) of
\* every region, the date of every day, and the counts; the retrieval is
\* followed with the content left out, a file being known by src, file and ver
JUnset ==
    [set |-> FALSE, src |-> "", file |-> "", ver |-> 0, form |-> "",
     keys |-> <<>>, dates |-> <<>>, cells |-> <<>>]

\* Python's None, as an argument value
None == "<None>"

\* pd.read_csv(url): the wide CSV published for metric m at revision ver
RemoteCsv(m, ver) ==
    [set |-> TRUE, src |-> "live", file |-> m, ver |-> ver, form |-> "wide",
     keys |-> <<>>, dates |-> <<>>, cells |-> <<>>]

\* pd.read_csv(this_dir + "/../data/" + fallback)
LocalCsv(fallback) ==
    [set |-> TRUE, src |-> "fallback", file |-> fallback, ver |-> 0, form |-> "wide",
     keys |-> <<>>, dates |-> <<>>, cells |-> <<>>]

\* __download_from_source(url, fallback): fetched tells whether read_csv(url)
\* succeeded; the path of the local copy is built by string concatenation,
\* which raises TypeError when fallback is None
download_from_source(fetched, m, ver, fallback) ==
    IF fetched
      THEN [raised |-> FALSE, exc |-> "", csv |-> RemoteCsv(m, ver)]
      ELSE IF fallback = None
        THEN [raised |-> TRUE, exc |-> "TypeError", csv |-> JUnset]
        ELSE [raised |-> FALSE, exc |-> "", csv |-> LocalCsv(fallback)]

\* datetime.datetime.strptime(d, '%m/%d/%y') of a column header
strptime(header) == header.v

\* df.T: cells[i][j] becomes cells[j][i]
Transpose(cells) ==
    IF cells = <<>> THEN <<>>
    ELSE [j \in 1..Len(cells[1]) |-> [i \in 1..Len(cells) |-> cells[i][j]]]

\* __to_iso(df): drop Lat/Long, index by (country, state), parse the date
\* headers, transpose to rows = dates
to_iso(csv) ==
    [csv EXCEPT !.form = "iso",
                !.dates = [i \in 1..Len(csv.dates) |-> strptime(csv.dates[i])],
                !.cells = Transpose(csv.cells)]

\* the fallback argument the download_<metric> methods pass: none
FallbackArg(m) == None

\* the tuple expression of download_all_available_data evaluates left to right
NextMetric(m) ==
    IF m = "confirmed" THEN "deaths" ELSE "recovered"

\* the save flag as passed by a caller
SaveArgs == {"omitted", "True", "False"}

\* variant: an omitted flag means not to store
save_to_attributes_default_off(arg) == arg = "True"

\* save_to_attributes : bool = True, the flag a call works with
save_to_attributes(arg) == IF arg = "omitted" THEN TRUE ELSE arg = "True"

\* a caller invokes jhu.download_all_available_data(save_to_attributes = s)
\* (o = "all") or jhu.download_<o>(save_to_attribues = s)
JHU_Call(o, s) ==
    /\ kind = "JHU"
    /\ pc = "idle"
    /\ calls < MaxCalls
    /\ pc' = IF o = "all" THEN "confirmed" ELSE o
    /\ op' = o
    /\ save' = s
    /\ done' = 0
    /\ calls' = calls + 1
    /\ result' = "none"
    /\ returned' = NoValue
    /\ before' = Snapshot
    /\ fetch_failed' = FALSE
    /\ UNCHANGED <<kind, data, rkiLocals, confirmed, deaths, recovered, fcall>>

\* what a download_<metric> body does with the table t it built or the
\* exception it met; stored is the new value of its own attribute
Download(m, fetched) ==
    LET r == download_from_source(fetched, m, calls, FallbackArg(m)) IN
    /\ pc = m
    /\ fetch_failed' = (fetch_failed \/ ~fetched)
    /\ IF r.raised
         THEN /\ pc' = "idle"
              /\ result' = r.exc
              /\ returned' = NoValue
              /\ UNCHANGED done
         ELSE /\ returned' = Append(returned, to_iso(r.csv))
              /\ done' = done + 1
              /\ IF op = "all" /\ m # "recovered"
                   THEN /\ pc' = NextMetric(m)
                        /\ UNCHANGED result
                   ELSE /\ pc' = "idle"
                        /\ result' = "returned"
    /\ UNCHANGED <<kind, calls, before, data, rkiLocals, op, save, fcall>>

\* the value a download_<metric> body leaves in its attribute
Stored(m, fetched, old) ==
    LET r == download_from_source(fetched, m, calls, FallbackArg(m)) IN
    IF ~r.raised /\ save_to_attributes(save) THEN to_iso(r.csv) ELSE old

download_confirmed ==
    \E fetched \in BOOLEAN :
        /\ Download("confirmed", fetched)
        /\ confirmed' = Stored("confirmed", fetched, confirmed)
        /\ UNCHANGED <<deaths, recovered>>

download_deaths ==
    \E fetched \in BOOLEAN :
        /\ Download("deaths", fetched)
        /\ deaths' = Stored("deaths", fetched, deaths)
        /\ UNCHANGED <<confirmed, recovered>>

download_recovered ==
    \E fetched \in BOOLEAN :
        /\ Download("recovered", fetched)
        /\ recovered' = Stored("recovered", fetched, recovered)
        /\ UNCHANGED <<confirmed, deaths>>

NextJHU ==
    \/ \E o \in {"all", "confirmed", "deaths", "recovered"}, s \in SaveArgs :
          JHU_Call(o, s)
    \/ download_confirmed
    \/ download_deaths
    \/ download_recovered

----------------------------------------------------------------------------
(* The adapter after construction (auto_download = False) *)

NoCall ==
    [fn |-> "none", begin |-> [type |-> "None", v |-> 0],
     end |-> [type |-> "None", v |-> 0], variable |-> None, date_type |-> None,
     level |-> None, outcome |-> "none", accessed |-> FALSE]

Init ==
    /\ kind \in {"JHU", "RKI"}
    /\ pc = "idle"
    /\ calls = 0
    /\ result = "none"
    /\ returned = NoValue
    /\ before = [data |-> Unset, confirmed |-> JUnset, deaths |-> JUnset,
                 recovered |-> JUnset]
    /\ fetch_failed = FALSE
    /\ data = Unset
    /\ try_max = 0
    /\ unique_ids = <<>>
    /\ idx = 0
    /\ count_try = 0
    /\ df = <<>>
    /\ data_flat = [bound |-> FALSE, rows |-> <<>>]
    /\ n_data = 0
    /\ requests = 0
    /\ lastq = 0
    /\ region_reqs = 0
    /\ resp = NoResp
    /\ confirmed = JUnset
    /\ deaths = JUnset
    /\ recovered = JUnset
    /\ op = "none"
    /\ save = "omitted"
    /\ done = 0
    /\ fcall = NoCall

Next == NextRKI \/ NextJHU

Spec == Init /\ [][Next]_vars

----------------------------------------------------------------------------
(* Filtering accessors: argument validation *)

\* a date argument: omitted, a datetime.datetime, or a value of another type
DateArgs ==
    {[type |-> "None", v |-> 0]}
      \cup {[type |-> "datetime", v |-> d] : d \in 1..MaxDate}
      \cup {[type |-> "str", v |-> d] : d \in 1..MaxDate}

VariableArgs == {"AnzahlFall", "AnzahlTodesfall", "AnzahlGenesen", "foo"}
DateTypeArgs == {"date", "date_ref", "Meldedatum"}
LevelArgs == {"Landkreis", "Bundesland", None, "None"}

\* first/last date of the stored table (a pandas Timestamp, which is a datetime)
FirstDate == [type |-> "datetime", v |-> 1]
LastDate == [type |-> "datetime", v |-> MaxDate]

\* isinstance(x, datetime.datetime)
IsDatetime(x) == x.type = "datetime"

\* variant: any name is let through
ValidVariable_any(v) == TRUE

\* variable not in ['AnzahlFall', 'AnzahlTodesfall', 'AnzahlGenesen']
ValidVariable(v) == v \in {"AnzahlFall", "AnzahlTodesfall", "AnzahlGenesen"}

\* level not in ['Landkreis', 'Bundesland', None]
ValidLevel(l) == l \in {"Landkreis", "Bundesland", None}

\* date_type not in ['date', 'date_ref']
ValidDateType(t) == t \in {"date", "date_ref"}

\* if begin_date is None: begin_date = <first date>
Default(x, d) == IF x.type = "None" THEN d ELSE x

\* not isinstance(begin_date, datetime.datetime) and isinstance(end_date, datetime.datetime)
DatesRejected(b, e) == ~IsDatetime(b) /\ IsDatetime(e)

\* df[begin_date:end_date]: with two datetimes the slice is taken; with another
\* type pandas either takes the value as a label or raises its own error
SliceOutcomes(b, e) ==
    IF IsDatetime(b) /\ IsDatetime(e) THEN {"ok"} ELSE {"ok", "SliceError"}

\* the checks on the date arguments and the final slice, common to the accessors
DatesThenSlice(b, e, sl) ==
    IF DatesRejected(b, e) THEN "ValueError:dates" ELSE sl

\* RKI.filter up to its return: outcome and whether self.data was read
filter_outcome(b, e, variable, date_type, level, sl) ==
    IF ~ValidVariable(variable)
      THEN [outcome |-> "ValueError:variable", accessed |-> FALSE]
    ELSE IF ~ValidLevel(level)
      THEN [outcome |-> "ValueError:level", accessed |-> FALSE]
    ELSE IF ~ValidDateType(date_type)
      THEN [outcome |-> "ValueError:date_type", accessed |-> FALSE]
    ELSE IF ~data.set
      THEN [outcome |-> "AttributeError", accessed |-> TRUE]
    ELSE [outcome |-> DatesThenSlice(Default(b, FirstDate), Default(e, LastDate), sl),
          accessed |-> TRUE]

\* RKI.filter_all_bundesland up to its return; self.data is first read for a
\* default date, or after the checks for the pivot
filter_all_bundesland_outcome(b, e, variable, date_type, sl) ==
    IF ~ValidVariable(variable)
      THEN [outcome |-> "ValueError:variable", accessed |-> FALSE]
    ELSE IF ~ValidDateType(date_type)
      THEN [outcome |-> "ValueError:date_type", accessed |-> FALSE]
    ELSE IF ~data.set /\ (b.type = "None" \/ e.type = "None")
      THEN [outcome |-> "AttributeError", accessed |-> TRUE]
    ELSE IF DatesRejected(Default(b, FirstDate), Default(e, LastDate))
      THEN [outcome |-> "ValueError:dates",
            accessed |-> (b.type = "None" \/ e.type = "None")]
    ELSE IF ~data.set
      THEN [outcome |-> "AttributeError", accessed |-> TRUE]
    ELSE [outcome |-> sl, accessed |-> TRUE]

\* rki.filter(begin_date, end_date, variable, date_type, level)
RKI_filter(b, e, variable, date_type, level) ==
    /\ kind = "RKI"
    /\ pc = "idle"
    /\ fcall.fn = "none"
    /\ \E sl \in SliceOutcomes(Default(b, FirstDate), Default(e, LastDate)) :
          LET r == filter_outcome(b, e, variable, date_type, level, sl) IN
          fcall' = [fn |-> "filter", begin |-> b, end |-> e, variable |-> variable,
                    date_type |-> date_type, level |-> level,
                    outcome |-> r.outcome, accessed |-> r.accessed]
    /\ UNCHANGED <<kind, pc, calls, result, returned, before, fetch_failed,
                   data, rkiLocals, jhuVars>>

\* rki.filter_all_bundesland(begin_date, end_date, variable, date_type)
RKI_filter_all_bundesland(b, e, variable, date_type) ==
    /\ kind = "RKI"
    /\ pc = "idle"
    /\ fcall.fn = "none"
    /\ \E sl \in SliceOutcomes(Default(b, FirstDate), Default(e, LastDate)) :
          LET r == filter_all_bundesland_outcome(b, e, variable, date_type, sl) IN
          fcall' = [fn |-> "filter_all_bundesland", begin |-> b, end |-> e,
                    variable |-> variable, date_type |-> date_type, level |-> None,
                    outcome |-> r.outcome, accessed |-> r.accessed]
    /\ UNCHANGED <<kind, pc, calls, result, returned, before, fetch_failed,
                   data, rkiLocals, jhuVars>>

\* jhu.filter_date(df, begin_date, end_date) on a date-indexed frame df
JHU_filter_date(b, e) ==
    /\ kind = "JHU"
    /\ pc = "idle"
    /\ fcall.fn = "none"
    /\ \E sl \in SliceOutcomes(Default(b, FirstDate), Default(e, LastDate)) :
          fcall' = [fn |-> "filter_date", begin |-> b, end |-> e,
                    variable |-> None, date_type |-> None, level |-> None,
                    outcome |-> DatesThenSlice(Default(b, FirstDate),
                                               Default(e, LastDate), sl),
                    accessed |-> FALSE]
    /\ UNCHANGED <<kind, pc, calls, result, returned, before, fetch_failed,
                   data, rkiLocals, jhuVars>>

\* the accessor has returned or raised and the caller has taken the outcome
FilterDone ==
    /\ fcall.fn # "none"
    /\ fcall' = NoCall
    /\ UNCHANGED <<kind, pc, calls, result, returned, before, fetch_failed,
                   data, rkiLocals, jhuVars>>

NextFilter ==
    \/ \E b \in DateArgs, e \in DateArgs, v \in VariableArgs, t \in DateTypeArgs,
          l \in LevelArgs : RKI_filter(b, e, v, t, l)
    \/ \E b \in DateArgs, e \in DateArgs, v \in VariableArgs, t \in DateTypeArgs :
          RKI_filter_all_bundesland(b, e, v, t)
    \/ \E b \in DateArgs, e \in DateArgs : JHU_filter_date(b, e)
    \/ FilterDone

\* the adapters the accessors are called on: a fresh JHU or RKI instance, or
\* the RKI instance after download_all_available_data stored the fallback
\* snapshot (the discovery query enumerated no region)
InitFilter ==
    /\ kind \in {"JHU", "RKI"}
    /\ pc = "idle"
    /\ fetch_failed = FALSE
    /\ \/ /\ data = Unset
          /\ calls = 0
          /\ result = "none"
          /\ returned = NoValue
          /\ df = <<>>
          /\ requests = 0
       \/ /\ kind = "RKI"
          /\ data = FallbackTable
          /\ calls = 1
          /\ result = "returned"
          /\ returned = <<FallbackTable>>
          /\ df = FallbackRows
          /\ requests = 1
    /\ before = [data |-> Unset, confirmed |-> JUnset, deaths |-> JUnset,
                 recovered |-> JUnset]
    /\ try_max = 0
    /\ unique_ids = <<>>
    /\ idx = 0
    /\ count_try = 0
    /\ data_flat = [bound |-> FALSE, rows |-> <<>>]
    /\ n_data = 0
    /\ lastq = 0
    /\ region_reqs = 0
    /\ resp = NoResp
    /\ confirmed = JUnset
    /\ deaths = JUnset
    /\ recovered = JUnset
    /\ op = "none"
    /\ save = "omitted"
    /\ done = 0
    /\ fcall = NoCall

SpecFilter == InitFilter /\ [][NextFilter]_vars

----------------------------------------------------------------------------
(* RKI: the record table and the series computed from it *)

\* the districts that deliver records, and the state each lies in
Landkreise == {"LK Alpha", "LK Beta"}
BundeslandOf(lk) == IF lk = "LK Alpha" THEN "Bayern" ELSE "Sachsen"

\* one feature of a query answer: a report on day d that is either new cases
\* with an onset the day before, or a correction that takes a case back (the
\* source delivers counts of -1 for cases it withdraws)
Feature(lk, d, k) ==
    [Bundesland |-> BundeslandOf(lk), Landkreis |-> lk,
     Meldedatum |-> d * MilliPerSecond,
     Refdatum |-> (IF k = "cases" /\ d > 1 THEN d - 1 ELSE d) * MilliPerSecond,
     AnzahlFall |-> IF k = "cases" THEN 2 ELSE -1,
     AnzahlTodesfall |-> IF k = "cases" THEN 1 ELSE 0,
     AnzahlGenesen |-> IF k = "cases" THEN 0 ELSE 1]

\* the answer of one district: nothing, a report on every day, a late report
\* followed by a correction dated to the first day, two reports on the first
\* day, or a report on the first day corrected on the last
AnswerShapes == {"none", "daily", "late", "burst", "corrected"}
Answer(lk, shape) ==
    IF shape = "none" THEN <<>>
    ELSE IF shape = "daily" THEN [d \in 1..MaxDate |-> Feature(lk, d, "cases")]
    ELSE IF shape = "late"
      THEN <<Feature(lk, MaxDate, "cases"), Feature(lk, 1, "correction")>>
    ELSE IF shape = "burst"
      THEN <<Feature(lk, 1, "cases"), Feature(lk, 1, "cases")>>
    ELSE <<Feature(lk, 1, "cases"), Feature(lk, MaxDate, "correction")>>

\* the record lists the queries can deliver: the answers of the districts,
\* appended district by district
FeatureLists ==
    {Answer("LK Alpha", s1) \o Answer("LK Beta", s2) :
        s1 \in AnswerShapes, s2 \in AnswerShapes}

\* datetime.datetime.fromtimestamp(x / 1e3)
fromtimestamp(x) == x \div MilliPerSecond

\* df['date'] = df['Meldedatum'].apply(...); df['date_ref'] = df['Refdatum'].apply(...)
LiveRows(features) ==
    [i \in 1..Len(features) |->
        [Bundesland |-> features[i].Bundesland, Landkreis |-> features[i].Landkreis,
         AnzahlFall |-> features[i].AnzahlFall,
         AnzahlTodesfall |-> features[i].AnzahlTodesfall,
         AnzahlGenesen |-> features[i].AnzahlGenesen,
         date |-> fromtimestamp(features[i].Meldedatum),
         date_ref |-> fromtimestamp(features[i].Refdatum)]]

\* a line of the snapshot file: the dates are text, as the file was saved from
\* a table that had both columns
SnapshotLine(f) ==
    [Bundesland |-> f.Bundesland, Landkreis |-> f.Landkreis,
     AnzahlFall |-> f.AnzahlFall, AnzahlTodesfall |-> f.AnzahlTodesfall,
     AnzahlGenesen |-> f.AnzahlGenesen,
     date |-> [type |-> "str", v |-> fromtimestamp(f.Meldedatum)],
     date_ref |-> [type |-> "str", v |-> fromtimestamp(f.Refdatum)]]

\* the snapshot files read on the fallback path
SnapshotFiles ==
    {[i \in 1..Len(fs) |-> SnapshotLine(fs[i])] : fs \in FeatureLists}

\* pd.to_datetime(text, format = '%d-%m-%Y')
to_datetime(s) == s.v

\* variant: date_ref is parsed from the date_ref column of the file
date_ref_of_line_own(line) == to_datetime(line.date_ref)

\* df['date_ref'] = pd.to_datetime(df['date'], ...)
date_ref_of_line(line) == to_datetime(line.date)

\* the fallback branch: both date columns are parsed from the 'date' column
FallbackRowsOf(file) ==
    [i \in 1..Len(file) |->
        [Bundesland |-> file[i].Bundesland, Landkreis |-> file[i].Landkreis,
         AnzahlFall |-> file[i].AnzahlFall,
         AnzahlTodesfall |-> file[i].AnzahlTodesfall,
         AnzahlGenesen |-> file[i].AnzahlGenesen,
         date |-> to_datetime(file[i].date),
         date_ref |-> date_ref_of_line(file[i])]]

\* self.data after a retrieval that read the snapshot file
FallbackFrame(file) == [FallbackTable EXCEPT !.rows = FallbackRowsOf(file)]

\* a pandas Timestamp made of a date of the table
Ts(d) == [type |-> "datetime", v |-> d]

\* least and greatest element of a non-empty set of numbers
Least(S) == CHOOSE x \in S : \A y \in S : x <= y
Greatest(S) == CHOOSE x \in S : \A y \in S : y <= x

\* the elements of a set of numbers in ascending order
RECURSIVE Ascending(_)
Ascending(S) ==
    IF S = {} THEN <<>> ELSE <<Least(S)>> \o Ascending(S \ {Least(S)})

\* rows without the one at position i
Without(rows, i) == [j \in 1..(Len(rows) - 1) |-> IF j < i THEN rows[j] ELSE rows[j + 1]]

\* df.sort_values(key): a sorted copy, rows of equal key in their stored order
RECURSIVE sort_values(_, _)
sort_values(rows, key) ==
    IF rows = <<>> THEN <<>>
    ELSE LET m == Least({rows[i][key] : i \in 1..Len(rows)})
             i == Least({j \in 1..Len(rows) : rows[j][key] = m})
         IN <<rows[i]>> \o sort_values(Without(rows, i), key)

\* sum of a column over rows
RECURSIVE ColumnSum(_, _)
ColumnSum(rows, variable) ==
    IF rows = <<>> THEN 0
    ELSE rows[1][variable] + ColumnSum(Tail(rows), variable)

\* the rows whose column has the value
RowsWhere(rows, column, value) ==
    LET Hit(r) == r[column] = value IN SelectSeq(rows, Hit)

\* df.groupby(key)[variable].sum(): one entry per key present, ascending
groupby_sum(rows, key, variable) ==
    LET ds == Ascending({rows[i][key] : i \in 1..Len(rows)}) IN
    [j \in 1..Len(ds) |->
        [date |-> ds[j], value |-> ColumnSum(RowsWhere(rows, key, ds[j]), variable)]]

\* sum of the values of the first n entries of a series
RECURSIVE ValueSum(_, _)
ValueSum(series, n) ==
    IF n = 0 THEN 0 ELSE series[n].value + ValueSum(series, n - 1)

\* variant: the sums of the single dates are handed on
cumsum_none(series) == series

\* series.cumsum()
cumsum(series) ==
    [j \in 1..Len(series) |-> [date |-> series[j].date, value |-> ValueSum(series, j)]]

\* series[begin_date:end_date] on a date index in ascending order: both ends
\* are included
slice(series, b, e) ==
    LET In(x) == b.v <= x.date /\ x.date <= e.v IN SelectSeq(series, In)

\* variant: the series is cut to the range first and summed up afterwards
cumsum_slice_cut_first(series, b, e) == cumsum(slice(series, b, e))

\* df.groupby(...)[variable].sum().cumsum() and then df_series[begin:end]
cumsum_slice(series, b, e) == slice(cumsum(series), b, e)

\* variant: the default dates are read from the selected rows
dates_frame_selected(rows, date_type, level, value) ==
    sort_values(IF level # None THEN RowsWhere(rows, level, value) ELSE rows,
                date_type)

\* df = self.data.sort_values(date_type): the frame the default dates are
\* read from is the whole table, whatever the selector
dates_frame(rows, date_type, level, value) == sort_values(rows, date_type)

\* a value handed back by an accessor: rows indexed by date or by region
DateIndexed(rows) == [by |-> "date", rows |-> rows]

\* RKI.filter after its three argument checks
filter(rows, b, e, variable, date_type, level, value) ==
    LET sorted == dates_frame(rows, date_type, level, value)
        begin == IF b.type = "None" THEN Ts(sorted[1][date_type]) ELSE b
        end == IF e.type = "None" THEN Ts(sorted[Len(sorted)][date_type]) ELSE e
        sel == IF level # None THEN RowsWhere(rows, level, value) ELSE rows
    IN DateIndexed(cumsum_slice(groupby_sum(sel, date_type, variable), begin, end))

\* RKI.filter as a call: the checks of filter_outcome, then .iloc[0]/.iloc[-1]
\* of a frame without rows raises IndexError
filter_call(tbl, b, e, variable, date_type, level, value, sl) ==
    LET r == filter_outcome(b, e, variable, date_type, level, sl) IN
    IF r.outcome \in {"ValueError:variable", "ValueError:level",
                      "ValueError:date_type", "AttributeError"}
      THEN [outcome |-> r.outcome, accessed |-> r.accessed, ret |-> NoValue]
    ELSE IF dates_frame(tbl.rows, date_type, level, value) = <<>>
            /\ (b.type = "None" \/ e.type = "None")
      THEN [outcome |-> "IndexError", accessed |-> TRUE, ret |-> NoValue]
    ELSE IF r.outcome # "ok"
      THEN [outcome |-> r.outcome, accessed |-> TRUE, ret |-> NoValue]
    ELSE [outcome |-> "ok", accessed |-> TRUE,
          ret |-> <<filter(tbl.rows, b, e, variable, date_type, level, value)>>]

\* the states that occur in the table, the columns of the pivot
Bundeslaender(rows) == {rows[i].Bundesland : i \in 1..Len(rows)}

\* groupby([date_type, 'Bundesland'])[variable].sum() ... pivot(...).fillna(0):
\* one row per date present, one column per state present, 0 where a state has
\* no record on the date
pivot(rows, date_type, variable) ==
    LET ds == Ascending({rows[i][date_type] : i \in 1..Len(rows)}) IN
    [j \in 1..Len(ds) |->
        [date |-> ds[j],
         cols |-> [bl \in Bundeslaender(rows) |->
                     ColumnSum(RowsWhere(RowsWhere(rows, date_type, ds[j]),
                                         "Bundesland", bl), variable)]]]

\* sum of column bl over the first n rows of a frame
RECURSIVE FrameSum(_, _, _)
FrameSum(frame, bl, n) ==
    IF n = 0 THEN 0 ELSE frame[n].cols[bl] + FrameSum(frame, bl, n - 1)

\* frame.cumsum(): every column summed up down the rows
cumsum_columns(frame) ==
    [j \in 1..Len(frame) |->
        [date |-> frame[j].date,
         cols |-> [bl \in DOMAIN frame[j].cols |-> FrameSum(frame, bl, j)]]]

\* RKI.filter_all_bundesland after its two argument checks: the default dates
\* are those of the first and the last stored row, the frame is cut to the
\* range and then summed up
filter_all_bundesland(rows, b, e, variable, date_type) ==
    LET begin == IF b.type = "None" THEN Ts(rows[1][date_type]) ELSE b
        end == IF e.type = "None" THEN Ts(rows[Len(rows)][date_type]) ELSE e
    IN DateIndexed(cumsum_columns(slice(pivot(rows, date_type, variable), begin, end)))

\* RKI.filter_all_bundesland as a call
filter_all_bundesland_call(tbl, b, e, variable, date_type, sl) ==
    LET r == filter_all_bundesland_outcome(b, e, variable, date_type, sl) IN
    IF r.outcome \in {"ValueError:variable", "ValueError:date_type", "AttributeError"}
      THEN [outcome |-> r.outcome, accessed |-> r.accessed, ret |-> NoValue]
    ELSE IF tbl.rows = <<>> /\ (b.type = "None" \/ e.type = "None")
      THEN [outcome |-> "IndexError", accessed |-> TRUE, ret |-> NoValue]
    ELSE IF r.outcome # "ok"
      THEN [outcome |-> r.outcome, accessed |-> TRUE, ret |-> NoValue]
    ELSE [outcome |-> "ok", accessed |-> TRUE,
          ret |-> <<filter_all_bundesland(tbl.rows, b, e, variable, date_type)>>]

\* the column a get_<metric> accessor passes to filter
VariableOf(m) ==
    IF m = "confirmed" THEN "AnzahlFall"
    ELSE IF m = "deaths" THEN "AnzahlTodesfall" ELSE "AnzahlGenesen"

\* variant: a given bundesland decides the level
LevelOf_bundesland_first(bundesland, landkreis) ==
    IF bundesland # None THEN "Bundesland"
    ELSE IF landkreis # None THEN "Landkreis" ELSE None

\* level and value as get_<metric> sets them: bundesland first, then landkreis
LevelOf(bundesland, landkreis) ==
    IF landkreis # None THEN "Landkreis"
    ELSE IF bundesland # None THEN "Bundesland" ELSE None

ValueOf(bundesland, landkreis) ==
    IF landkreis # None THEN landkreis
    ELSE IF bundesland # None THEN bundesland ELSE None

\* RKI.get_confirmed / get_deaths / get_recovered
rki_get(tbl, m, bundesland, landkreis, b, e, date_type, sl) ==
    filter_call(tbl, b, e, VariableOf(m), date_type,
                LevelOf(bundesland, landkreis), ValueOf(bundesland, landkreis), sl)

\* df.diff(): the difference to the row before, NaN in the first row
diff(series) ==
    [j \in 1..Len(series) |->
        [date |-> series[j].date,
         value |-> IF j = 1 THEN 0 ELSE series[j].value - series[j - 1].value,
         nan |-> j = 1]]

\* variant: no row is dropped
drop_none(series, label) == series

\* .drop(label): the rows that carry the label are removed
drop(series, label) ==
    LET Keep(x) == x.date # label IN SelectSeq(series, Keep)

\* .astype(int): defined when no value is NaN
astype_int(series) ==
    [j \in 1..Len(series) |-> [date |-> series[j].date, value |-> series[j].value]]

\* df.diff().drop(df.index[0]).astype(int) on what the cumulative accessor
\* handed back: df.index[0] of a frame without rows raises IndexError, and
\* astype raises ValueError on a NaN
new_of(c) ==
    IF c.outcome # "ok" THEN c
    ELSE IF c.ret[1].rows = <<>>
      THEN [outcome |-> "IndexError", accessed |-> c.accessed, ret |-> NoValue]
    ELSE LET d == drop(diff(c.ret[1].rows), c.ret[1].rows[1].date) IN
         IF \E j \in 1..Len(d) : d[j].nan
           THEN [outcome |-> "ValueError:astype", accessed |-> c.accessed,
                 ret |-> NoValue]
           ELSE [outcome |-> "ok", accessed |-> c.accessed,
                 ret |-> <<[by |-> c.ret[1].by, rows |-> astype_int(d)]>>]

----------------------------------------------------------------------------
(* JHU: the tables by date and region, and the accessors *)

\* the (country, state) of the rows of the published CSV files
Regions ==
    <<<<"Australia", "Victoria">>, <<"Australia", "Tasmania">>, <<"Germany", "NaN">>>>

\* the course of a cumulative count of a region over the days 1..MaxDate
CurveNames == {"flat", "step", "line", "revised"}
Curve(c, d) ==
    IF c = "flat" THEN 1
    ELSE IF c = "step" THEN (IF d > 1 THEN 2 ELSE 0)
    ELSE IF c = "line" THEN d
    ELSE MaxDate + 1 - d

\* the column headers of a CSV file: dates as text
Headers == [d \in 1..MaxDate |-> [type |-> "str", v |-> d]]

\* the CSV file of metric m whose regions follow the given curves
Sheet(m, curves) ==
    [RemoteCsv(m, 1) EXCEPT
        !.keys = Regions, !.dates = Headers,
        !.cells = [i \in 1..Len(Regions) |-> [d \in 1..MaxDate |-> Curve(curves[i], d)]]]

\* sum of the cells of a row over a set of columns
RECURSIVE CellSum(_, _)
CellSum(row, cols) ==
    IF cols = {} THEN 0
    ELSE LET j == CHOOSE c \in cols : TRUE IN row[j] + CellSum(row, cols \ {j})

\* frame.sum(axis = 1): one value per date, the sum over the columns
sum_axis1(t, cols) ==
    [i \in 1..Len(t.dates) |-> [date |-> t.dates[i], value |-> CellSum(t.cells[i], cols)]]

\* frame.sum(): one value per column, the sum over the dates; the result is
\* indexed by (country, state)
sum_axis0(t) ==
    [j \in 1..Len(t.keys) |->
        [date |-> t.keys[j],
         value |-> CellSum([i \in 1..Len(t.dates) |-> t.cells[i][j]], 1..Len(t.dates))]]

\* variant: every column is taken for the country
ColumnsOf_all(t, country) == 1..Len(t.keys)

\* the columns of a country, and the column of a (country, state)
ColumnsOf(t, country) == {j \in 1..Len(t.keys) : t.keys[j][1] = country}
ColumnOf(t, country, state) == {j \in 1..Len(t.keys) : t.keys[j] = <<country, state>>}

\* the three branches on country and state of get_confirmed, get_deaths and
\* get_confirmed_deaths_recovered; a table that is still None, or a label
\* that is no column, raises
select_sum(t, country, state) ==
    IF ~t.set
      THEN [outcome |-> IF country = None THEN "AttributeError" ELSE "TypeError",
            rows |-> <<>>]
    ELSE IF country = None
      THEN [outcome |-> "ok", rows |-> sum_axis1(t, 1..Len(t.keys))]
    ELSE IF state = None
      THEN IF ColumnsOf(t, country) = {}
             THEN [outcome |-> "KeyError", rows |-> <<>>]
             ELSE [outcome |-> "ok", rows |-> sum_axis1(t, ColumnsOf(t, country))]
    ELSE IF ColumnOf(t, country, state) = {}
      THEN [outcome |-> "KeyError", rows |-> <<>>]
      ELSE [outcome |-> "ok", rows |-> sum_axis1(t, ColumnOf(t, country, state))]

\* if country == "None": country = None
NoneString(x) == IF x = "None" THEN None ELSE x

\* JHU.filter_date(df, begin_date, end_date) on a frame indexed by date
filter_date(rows, b, e, sl) ==
    IF rows = <<>> /\ (b.type = "None" \/ e.type = "None")
      THEN [outcome |-> "IndexError", accessed |-> TRUE, ret |-> NoValue]
    ELSE LET begin == IF b.type = "None" THEN Ts(rows[1].date) ELSE b
             end == IF e.type = "None" THEN Ts(rows[Len(rows)].date) ELSE e
             o == DatesThenSlice(begin, end, sl)
         IN IF o # "ok"
              THEN [outcome |-> o, accessed |-> TRUE, ret |-> NoValue]
              ELSE [outcome |-> "ok", accessed |-> TRUE,
                    ret |-> <<DateIndexed(slice(rows, begin, end))>>]

\* JHU.get_confirmed and JHU.get_deaths on their stored table t
jhu_get(t, country, state, b, e, sl) ==
    LET s == select_sum(t, NoneString(country), NoneString(state)) IN
    IF s.outcome # "ok"
      THEN [outcome |-> s.outcome, accessed |-> TRUE, ret |-> NoValue]
      ELSE filter_date(s.rows, b, e, sl)

\* the three branches of get_recovered: .sum() without an axis adds up the
\* dates of every column, and .loc[...] looks the label up among the dates
select_recovered(t, country, state) ==
    IF ~t.set
      THEN [outcome |-> "AttributeError", rows |-> <<>>]
    ELSE IF country = None
      THEN [outcome |-> "ok", rows |-> sum_axis0(t)]
      ELSE [outcome |-> "KeyError", rows |-> <<>>]

\* df[begin:end] on an index of (country, state): taken with the two default
\* labels when the index is sorted, an error with a date as label
RegionSliceOutcomes(b, e) ==
    IF b.type = "None" /\ e.type = "None" THEN {"ok", "SliceError"} ELSE {"SliceError"}

\* filter_date on the frame get_recovered builds, whose index holds regions
filter_date_regions(rows, b, e, sl) ==
    LET begin == IF b.type = "None" THEN [type |-> "tuple", v |-> 0] ELSE b
        end == IF e.type = "None" THEN [type |-> "tuple", v |-> 0] ELSE e
        o == DatesThenSlice(begin, end, sl)
    IN IF o # "ok"
         THEN [outcome |-> o, accessed |-> TRUE, ret |-> NoValue]
         ELSE [outcome |-> "ok", accessed |-> TRUE,
               ret |-> <<[by |-> "region", rows |-> rows]>>]

\* JHU.get_recovered
jhu_get_recovered(t, country, state, b, e, sl) ==
    LET s == select_recovered(t, NoneString(country), NoneString(state)) IN
    IF s.outcome # "ok"
      THEN [outcome |-> s.outcome, accessed |-> TRUE, ret |-> NoValue]
      ELSE filter_date_regions(s.rows, b, e, sl)

\* JHU.get_confirmed_deaths_recovered: one column per metric
get_confirmed_deaths_recovered(c, d, r, country, state, b, e, sl) ==
    LET sc == select_sum(c, country, state)
        sd == select_sum(d, country, state)
        sr == select_sum(r, country, state)
    IN IF sc.outcome # "ok"
         THEN [outcome |-> sc.outcome, accessed |-> TRUE, ret |-> NoValue]
       ELSE IF sd.outcome # "ok"
         THEN [outcome |-> sd.outcome, accessed |-> TRUE, ret |-> NoValue]
       ELSE IF sr.outcome # "ok"
         THEN [outcome |-> sr.outcome, accessed |-> TRUE, ret |-> NoValue]
       ELSE LET f == filter_date(sc.rows, b, e, sl) IN
            IF f.outcome # "ok" THEN f
            ELSE [f EXCEPT !.ret =
                    <<DateIndexed(
                        [i \in 1..Len(f.ret[1].rows) |->
                           LET k == CHOOSE k \in 1..Len(sc.rows) :
                                       sc.rows[k].date = f.ret[1].rows[i].date
                           IN [date |-> sc.rows[k].date, confirmed |-> sc.rows[k].value,
                               deaths |-> sd.rows[k].value,
                               recovered |-> sr.rows[k].value]])>>]

----------------------------------------------------------------------------
(* The accessors called on a populated adapter *)

\* the date arguments of these calls: omitted, or a datetime
SeriesDates == {[type |-> "None", v |-> 0]} \cup {Ts(d) : d \in 1..MaxDate}

\* level and value of a filter call: none, a state, a district, a state that
\* has no record, a level without a value
Selectors ==
    {<<None, None>>, <<"Bundesland", "Bayern">>, <<"Landkreis", "LK Beta">>,
     <<"Bundesland", "Atlantis">>, <<"Landkreis", None>>}

DateTypes == {"date", "date_ref"}
Variables == {"AnzahlFall", "AnzahlTodesfall", "AnzahlGenesen"}
MetricNames == {"confirmed", "deaths", "recovered"}

\* the tables download_all_available_data can have stored
StoredTables ==
    {LiveTable(LiveRows(fs)) : fs \in FeatureLists}
      \cup {FallbackFrame(file) : file \in SnapshotFiles}

\* no accessor call is under way
NoAccess ==
    [fn |-> "none", begin |-> [type |-> "None", v |-> 0],
     end |-> [type |-> "None", v |-> 0], variable |-> None, date_type |-> None,
     level |-> None, value |-> None, outcome |-> "none", accessed |-> FALSE,
     ret |-> NoValue]

\* the record of a call: for the get_ accessors level and value hold the two
\* region arguments (bundesland and landkreis, or country and state)
Access(fn, b, e, variable, date_type, level, value, r) ==
    [fn |-> fn, begin |-> b, end |-> e, variable |-> variable,
     date_type |-> date_type, level |-> level, value |-> value,
     outcome |-> r.outcome, accessed |-> r.accessed, ret |-> r.ret]

\* variant: the table is sorted in place
data_after_sort_inplace(tbl, date_type) ==
    IF tbl.set THEN [tbl EXCEPT !.rows = sort_values(tbl.rows, date_type)] ELSE tbl

\* self.data after an accessor ran: sort_values, the row selection, groupby
\* and the slice all build new frames, self.data is never assigned
data_after(tbl, date_type) == tbl

\* rki.filter(begin_date, end_date, variable, date_type, level, value)
RKI_filter_value(b, e, variable, date_type, level, value) ==
    /\ kind = "RKI"
    /\ pc = "idle"
    /\ fcall.fn = "none"
    /\ \E sl \in SliceOutcomes(Default(b, FirstDate), Default(e, LastDate)) :
          fcall' = Access("filter", b, e, variable, date_type, level, value,
                          filter_call(data, b, e, variable, date_type, level, value, sl))
    /\ data' = data_after(data, date_type)
    /\ UNCHANGED <<kind, pc, calls, result, returned, before, fetch_failed,
                   rkiLocals, jhuVars>>

\* rki.filter_all_bundesland(begin_date, end_date, variable, date_type)
RKI_filter_all_bundesland_value(b, e, variable, date_type) ==
    /\ kind = "RKI"
    /\ pc = "idle"
    /\ fcall.fn = "none"
    /\ \E sl \in SliceOutcomes(Default(b, FirstDate), Default(e, LastDate)) :
          fcall' = Access("filter_all_bundesland", b, e, variable, date_type, None, None,
                          filter_all_bundesland_call(data, b, e, variable, date_type, sl))
    /\ UNCHANGED <<kind, pc, calls, result, returned, before, fetch_failed,
                   data, rkiLocals, jhuVars>>

\* rki.get_confirmed / get_deaths / get_recovered(bundesland, landkreis, ...)
RKI_get(m, bundesland, landkreis, b, e, date_type) ==
    /\ kind = "RKI"
    /\ pc = "idle"
    /\ fcall.fn = "none"
    /\ \E sl \in SliceOutcomes(Default(b, FirstDate), Default(e, LastDate)) :
          fcall' = Access("get", b, e, VariableOf(m), date_type, bundesland, landkreis,
                          rki_get(data, m, bundesland, landkreis, b, e, date_type, sl))
    /\ data' = data_after(data, date_type)
    /\ UNCHANGED <<kind, pc, calls, result, returned, before, fetch_failed,
                   rkiLocals, jhuVars>>

\* rki.get_new_confirmed / get_new_deaths / get_new_recovered(...)
RKI_get_new(m, bundesland, landkreis, b, e, date_type) ==
    /\ kind = "RKI"
    /\ pc = "idle"
    /\ fcall.fn = "none"
    /\ \E sl \in SliceOutcomes(Default(b, FirstDate), Default(e, LastDate)) :
          fcall' = Access("get_new", b, e, VariableOf(m), date_type, bundesland, landkreis,
                          new_of(rki_get(data, m, bundesland, landkreis, b, e,
                                         date_type, sl)))
    /\ data' = data_after(data, date_type)
    /\ UNCHANGED <<kind, pc, calls, result, returned, before, fetch_failed,
                   rkiLocals, jhuVars>>

\* the cumulative accessor of a JHU metric on the stored tables
\* t = <<confirmed, deaths, recovered>>
jhu_cumulative(t, m, country, state, b, e, sl) ==
    IF m = "confirmed" THEN jhu_get(t[1], country, state, b, e, sl)
    ELSE IF m = "deaths" THEN jhu_get(t[2], country, state, b, e, sl)
    ELSE jhu_get_recovered(t[3], country, state, b, e, sl)

\* the outcomes of the final slice of a JHU accessor
JhuSliceOutcomes(m, b, e) ==
    IF m = "recovered" THEN RegionSliceOutcomes(b, e)
    ELSE SliceOutcomes(Default(b, FirstDate), Default(e, LastDate))

\* jhu.get_confirmed / get_deaths / get_recovered(country, state, ...)
JHU_get(m, country, state, b, e) ==
    /\ kind = "JHU"
    /\ pc = "idle"
    /\ fcall.fn = "none"
    /\ \E sl \in JhuSliceOutcomes(m, b, e) :
          fcall' = Access("get", b, e, m, None, country, state,
                          jhu_cumulative(<<confirmed, deaths, recovered>>, m, country, state,
                                         b, e, sl))
    /\ UNCHANGED <<kind, pc, calls, result, returned, before, fetch_failed,
                   data, rkiLocals, jhuVars>>

\* jhu.get_new_confirmed / get_new_deaths / get_new_recovered(country, state, ...)
JHU_get_new(m, country, state, b, e) ==
    /\ kind = "JHU"
    /\ pc = "idle"
    /\ fcall.fn = "none"
    /\ \E sl \in JhuSliceOutcomes(m, b, e) :
          fcall' = Access("get_new", b, e, m, None, country, state,
                          new_of(jhu_cumulative(<<confirmed, deaths, recovered>>, m, country, state,
                                         b, e, sl)))
    /\ UNCHANGED <<kind, pc, calls, result, returned, before, fetch_failed,
                   data, rkiLocals, jhuVars>>

\* jhu.get_confirmed_deaths_recovered(country, state, begin_date, end_date)
JHU_get_confirmed_deaths_recovered(country, state, b, e) ==
    /\ kind = "JHU"
    /\ pc = "idle"
    /\ fcall.fn = "none"
    /\ \E sl \in SliceOutcomes(Default(b, FirstDate), Default(e, LastDate)) :
          fcall' = Access("get_confirmed_deaths_recovered", b, e, None, None,
                          country, state,
                          get_confirmed_deaths_recovered(confirmed, deaths, recovered,
                                                         country, state, b, e, sl))
    /\ UNCHANGED <<kind, pc, calls, result, returned, before, fetch_failed,
                   data, rkiLocals, jhuVars>>

\* the accessor has returned or raised and the caller has taken the outcome
AccessDone ==
    /\ fcall.fn # "none"
    /\ fcall' = NoAccess
    /\ UNCHANGED <<kind, pc, calls, result, returned, before, fetch_failed,
                   data, rkiLocals, jhuVars>>

\* the region arguments tried on the two adapters
BundeslandArgs == {None, "Bayern"}
LandkreisArgs == {None, "LK Beta"}
CountryArgs == {None, "None", "Australia"}
StateArgs == {None, "Victoria"}

NextSeries ==
    \/ \E b \in SeriesDates, e \in SeriesDates, v \in Variables, t \in DateTypes,
          s \in Selectors : RKI_filter_value(b, e, v, t, s[1], s[2])
    \/ \E b \in SeriesDates, e \in SeriesDates, v \in Variables, t \in DateTypes :
          RKI_filter_all_bundesland_value(b, e, v, t)
    \/ \E m \in MetricNames, bl \in BundeslandArgs, lk \in LandkreisArgs,
          b \in SeriesDates, e \in SeriesDates, t \in DateTypes :
          RKI_get(m, bl, lk, b, e, t)
    \/ \E m \in MetricNames, bl \in BundeslandArgs, lk \in LandkreisArgs,
          b \in SeriesDates, e \in SeriesDates, t \in DateTypes :
          RKI_get_new(m, bl, lk, b, e, t)
    \/ \E m \in MetricNames, c \in CountryArgs, s \in StateArgs,
          b \in SeriesDates, e \in SeriesDates : JHU_get(m, c, s, b, e)
    \/ \E m \in MetricNames, c \in CountryArgs, s \in StateArgs,
          b \in SeriesDates, e \in SeriesDates : JHU_get_new(m, c, s, b, e)
    \/ \E c \in CountryArgs, s \in StateArgs, b \in SeriesDates, e \in SeriesDates :
          JHU_get_confirmed_deaths_recovered(c, s, b, e)
    \/ AccessDone

\* the adapters the accessors are called on: an RKI instance whose one
\* download_all_available_data call stored a table, or a JHU instance whose
\* one download_all_available_data call stored the three tables; the locals
\* of the finished call are gone
InitSeries ==
    /\ kind \in {"JHU", "RKI"}
    /\ pc = "idle"
    /\ fetch_failed = FALSE
    /\ calls = 1
    /\ result = "returned"
    /\ \/ /\ kind = "RKI"
          /\ data \in StoredTables
          /\ returned = <<data>>
          /\ confirmed = JUnset
          /\ deaths = JUnset
          /\ recovered = JUnset
          /\ op = "none"
          /\ done = 0
       \/ /\ kind = "JHU"
          /\ data = Unset
          /\ \E cs \in [1..Len(Regions) -> CurveNames] :
                /\ confirmed = to_iso(Sheet("confirmed", cs))
                /\ deaths = to_iso(Sheet("deaths", <<cs[2], cs[3], cs[1]>>))
                /\ recovered = to_iso(Sheet("recovered", <<cs[3], cs[1], cs[2]>>))
          /\ returned = <<confirmed, deaths, recovered>>
          /\ op = "all"
          /\ done = 3
    /\ before = [data |-> Unset, confirmed |-> JUnset, deaths |-> JUnset,
                 recovered |-> JUnset]
    /\ df = <<>>
    /\ requests = 0
    /\ try_max = 0
    /\ unique_ids = <<>>
    /\ idx = 0
    /\ count_try = 0
    /\ data_flat = [bound |-> FALSE, rows |-> <<>>]
    /\ n_data = 0
    /\ lastq = 0
    /\ region_reqs = 0
    /\ resp = NoResp
    /\ save = "omitted"
    /\ fcall = NoAccess

SpecSeries == InitSeries /\ [][NextSeries]_vars

----------------------------------------------------------------------------
(* Properties of retrieval *)

\* queries issued in this call for region id
QueriesFor(id) == IF lastq = id THEN region_reqs ELSE 0

\* re-issues of the query for region id in this call
RetriesFor(id) == IF QueriesFor(id) > 0 THEN QueriesFor(id) - 1 ELSE 0

\* the step is a per-region query
QueryStep == pc = "region" /\ requests' = requests + 1

\* region ids of the blocks of a table, in order
Ids(rows) == [i \in 1..Len(rows) |-> rows[i].id]

RkiLifecycle(t) ==
    IF ~t.set THEN "Uninitialized"
    ELSE IF t = FallbackTable THEN "FallbackPopulated" ELSE "Populated"

JhuLifecycle(t) ==
    IF ~t.set THEN "Uninitialized"
    ELSE IF t.src = "fallback" THEN "FallbackPopulated" ELSE "Populated"

Attr(m) ==
    IF m = "confirmed" THEN confirmed
    ELSE IF m = "deaths" THEN deaths ELSE recovered

\* the metrics whose download_<metric> body the running/last JHU call completed
Completed ==
    IF op = "all" THEN {Metrics[i] : i \in 1..done}
    ELSE IF done = 1 THEN {op} ELSE {}

\* the metrics the running/last JHU call is to download
Scope == IF op = "all" THEN {"confirmed", "deaths", "recovered"} ELSE {op} \ {"none"}

\* C1: when the tries of a region are used up (count_try has reached try_max
\* in the per-region loop), the next step aborts the call with ValueError:
\* nothing is returned, no further request is issued, and self.data is what
\* it was when the call started.
C1_FatalAbort ==
    [][(pc = "region" /\ count_try = try_max)
         => /\ pc' = "idle"
            /\ result' = "ValueError"
            /\ returned' = NoValue
            /\ requests' = requests
            /\ data' = before.data]_vars

\* a call on a populated adapter was aborted after some regions were appended
C1_Witness ==
    /\ kind = "RKI"
    /\ result = "ValueError"
    /\ try_max > 0
    /\ Len(df) > 0
    /\ before.data.set
    /\ data = before.data

\* C2 (as stated): a query over the ceiling is re-issued for the same region,
\* and a region is given up only after its query was re-issued try_max times.
C2_RetriedMaxRetriesTimes ==
    /\ (pc = "region" /\ resp.kind = "hits" /\ resp.n > QueryLimit)
          => count_try < try_max
    /\ (kind = "RKI" /\ pc = "idle" /\ result = "ValueError")
          => RetriesFor(unique_ids[idx]) = try_max

\* C2 (amended): a response of more than 5000 records counts as a failed try
\* and one of at most 5000 is accepted; while tries are left the next step
\* queries the same region again; the records of the first accepted response
\* are the ones appended; a new region is queried only after the previous
\* one was appended; a region is given up after try_max queries in all.
C2_RetryWithinTries ==
    [][/\ (QueryStep /\ resp'.kind = "hits" /\ resp'.n > QueryLimit)
            => (count_try' = count_try + 1 /\ df' = df /\ idx' = idx)
       /\ (QueryStep /\ resp'.kind = "hits" /\ resp'.n <= QueryLimit)
            => /\ df' = Append(df, Records(unique_ids[idx], calls, count_try, resp'.n))
               /\ region_reqs' = count_try + 1
       /\ (pc = "region" /\ count_try < try_max)
            => (QueryStep /\ lastq' = unique_ids[idx])
       /\ (QueryStep /\ lastq # 0 /\ lastq' # lastq)
            => (Len(df) > 0 /\ df[Len(df)].id = lastq)
       /\ (pc = "region" /\ result' = "ValueError")
            => QueriesFor(unique_ids[idx]) = try_max]_vars

\* a region was accepted with exactly 5000 records on its second try
C2_Witness ==
    /\ kind = "RKI"
    /\ pc = "region"
    /\ Len(df) > 0
    /\ df[Len(df)].try = 1
    /\ df[Len(df)].hits = QueryLimit

\* C3: no region is queried more than try_max times, a call issues at most
\* 1 + N * try_max requests for N enumerated regions, with try_max = 0 no
\* region is queried, and every step of a running call issues a request or
\* ends the call.
C3_BoundedTries ==
    /\ [](kind = "RKI" =>
            /\ region_reqs <= try_max
            /\ requests <= 1 + Len(unique_ids) * try_max
            /\ (try_max = 0 => lastq = 0))
    /\ [][(kind = "RKI" /\ pc # "idle")
            => (requests' = requests + 1 \/ pc' = "idle")]_vars

\* a region used all its tries and the call went on to the next regions
C3_Witness ==
    /\ kind = "RKI"
    /\ try_max = MaxTry
    /\ region_reqs = try_max
    /\ Len(df) > 1
    /\ df[1].try = try_max - 1

C5_FetchFailureRecovered ==
    (kind = "JHU" /\ pc = "idle" /\ fetch_failed)
        => /\ result = "returned"
           /\ Len(returned) > 0
           /\ returned[Len(returned)].src = "fallback"

C7_NoPartialState ==
    pc = "idle" =>
        IF kind = "RKI"
          THEN data = before.data \/ <<data>> = returned
          ELSE \/ \A m \in Scope : Attr(m) = before[m]
               \/ \A m \in Scope : Attr(m).set /\ Attr(m).ver = calls

----------------------------------------------------------------------------
(* Properties of argument validation *)

ValidationErrors ==
    {"ValueError:variable", "ValueError:level", "ValueError:date_type",
     "ValueError:dates"}

\* a date argument was supplied and is no datetime
Malformed(x) == x.type \notin {"None", "datetime"}

C10_MalformedDatesRejected ==
    (/\ fcall.fn # "none"
     /\ fcall.fn = "filter_date" \/ data.set
     /\ Malformed(fcall.begin) \/ Malformed(fcall.end))
        => fcall.outcome \in ValidationErrors

----------------------------------------------------------------------------
(* Properties of the accessors *)

\* the call under way, what it handed back, and the rows of the stored table
Returned == fcall.outcome = "ok"
Ret == fcall.ret[1].rows
Rows == data.rows

\* sum of a column over the rows at a set of positions
RECURSIVE SumAt(_, _)
SumAt(S, variable) ==
    IF S = {} THEN 0
    ELSE LET i == CHOOSE i \in S : TRUE IN Rows[i][variable] + SumAt(S \ {i}, variable)

\* positions of the records a selector picks
Selected(level, value) ==
    {i \in 1..Len(Rows) : level = None \/ Rows[i][level] = value}

\* the dates that occur in the stored table
Observed(date_type) == {Rows[i][date_type] : i \in 1..Len(Rows)}

\* the range asked for, an omitted end being the end of the observed range
RangeBegin == IF fcall.begin.type = "None" THEN Least(Observed(fcall.date_type))
              ELSE fcall.begin.v
RangeEnd == IF fcall.end.type = "None" THEN Greatest(Observed(fcall.date_type))
            ELSE fcall.end.v

\* what is summed up to date d for a selector
CumulativeAt(level, value, d) ==
    SumAt({i \in Selected(level, value) : Rows[i][fcall.date_type] <= d}, fcall.variable)

\* C11: a filter call that returns hands back, in ascending order and once
\* each, exactly the dates of the range on which a selected record exists,
\* each with the sum of the metric over all selected records dated up to it,
\* those before begin_date included; with no selector and no end points the
\* last value is the sum over the whole table
C11_FilterCumulative ==
    (fcall.fn = "filter" /\ Returned) =>
        /\ fcall.ret[1].by = "date"
        /\ \A i \in 1..Len(Ret), j \in 1..Len(Ret) : i < j => Ret[i].date < Ret[j].date
        /\ {Ret[i].date : i \in 1..Len(Ret)} =
              {Rows[k][fcall.date_type] : k \in Selected(fcall.level, fcall.value)}
                 \cap RangeBegin..RangeEnd
        /\ \A i \in 1..Len(Ret) :
              Ret[i].value = CumulativeAt(fcall.level, fcall.value, Ret[i].date)
        /\ (fcall.level = None /\ fcall.begin.type = "None" /\ fcall.end.type = "None")
              => Ret[Len(Ret)].value = SumAt(1..Len(Rows), fcall.variable)

\* a returned series for a state whose first value counts a record dated
\* before begin_date
C11_Witness ==
    /\ fcall.fn = "filter" /\ Returned
    /\ fcall.level = "Bundesland"
    /\ fcall.begin.type = "datetime"
    /\ Len(Ret) > 0
    /\ \E k \in Selected(fcall.level, fcall.value) :
          /\ Rows[k][fcall.date_type] < fcall.begin.v
          /\ Rows[k][fcall.variable] # 0

\* sum of the columns of a row of a frame
RECURSIVE RowTotal(_, _)
RowTotal(cols, S) ==
    IF S = {} THEN 0
    ELSE LET bl == CHOOSE x \in S : TRUE IN cols[bl] + RowTotal(cols, S \ {bl})

\* C12: a filter_all_bundesland call that returns gives, at every returned
\* date and for every Bundesland, the cumulative value filter gives for that
\* Bundesland up to the date; the columns of a row add up to the value filter
\* gives without a selector; with the end points omitted the full observed
\* range of dates is returned
C12_SameAsFilter ==
    (fcall.fn = "filter_all_bundesland" /\ Returned) =>
        /\ \A i \in 1..Len(Ret) :
              /\ \A bl \in DOMAIN Ret[i].cols :
                    Ret[i].cols[bl] = CumulativeAt("Bundesland", bl, Ret[i].date)
              /\ RowTotal(Ret[i].cols, DOMAIN Ret[i].cols)
                    = CumulativeAt(None, None, Ret[i].date)
        /\ (fcall.begin.type = "None" /\ fcall.end.type = "None")
              => {Ret[i].date : i \in 1..Len(Ret)} = Observed(fcall.date_type)

\* what the cumulative accessor of the call under way hands back, for every
\* outcome its final slice can have
CumulativeResults ==
    IF kind = "RKI"
      THEN {filter_call(data, fcall.begin, fcall.end, fcall.variable, fcall.date_type,
                        LevelOf(fcall.level, fcall.value),
                        ValueOf(fcall.level, fcall.value), "ok")}
      ELSE {jhu_cumulative(<<confirmed, deaths, recovered>>, fcall.variable,
                           fcall.level, fcall.value, fcall.begin, fcall.end, sl) :
               sl \in JhuSliceOutcomes(fcall.variable, fcall.begin, fcall.end)}

\* r is the first difference of the rows c: one row less, the i-th carrying
\* the label of row i + 1 and the difference of the values of rows i + 1 and i
FirstDifference(r, c) ==
    /\ Len(r) = Len(c) - 1
    /\ \A i \in 1..Len(r) :
          r[i].date = c[i + 1].date /\ r[i].value = c[i + 1].value - c[i].value

\* C13: a daily-new accessor hands back the first difference of what the
\* cumulative accessor hands back for the same arguments: for n >= 1 rows it
\* returns n - 1 rows, so a single row gives an empty series and no error;
\* when the cumulative accessor raises, so does the daily-new accessor
C13_FirstDifference ==
    fcall.fn = "get_new" =>
        \E c \in CumulativeResults :
            IF c.outcome # "ok" THEN fcall.outcome = c.outcome
            ELSE Len(c.ret[1].rows) >= 1 =>
                    /\ Returned
                    /\ fcall.ret[1].by = c.ret[1].by
                    /\ FirstDifference(Ret, c.ret[1].rows)

\* a daily-new series of at least one row with a non-zero increase
C13_Witness ==
    /\ fcall.fn = "get_new" /\ Returned
    /\ fcall.ret[1].by = "date"
    /\ Len(Ret) >= 1
    /\ Ret[1].value # 0

\* the values of a returned series never go down along the dates
NonDecreasing(r) ==
    \A i \in 1..Len(r), j \in 1..Len(r) : i < j => r[i].value <= r[j].value

\* C14 as stated: the cumulative series of a filter call that returns is
\* non-decreasing in date, whatever the per-record counts of the stored table
C14_Monotone ==
    (fcall.fn = "filter" /\ Returned) => NonDecreasing(Ret)

\* C14: the cumulative series of a filter call that returns is non-decreasing
\* in date when no selected record has a negative count of the metric
C14_MonotoneOnNonNegative ==
    (/\ fcall.fn = "filter" /\ Returned
     /\ \A k \in Selected(fcall.level, fcall.value) : Rows[k][fcall.variable] >= 0)
        => NonDecreasing(Ret)

\* a series over two dates that grows, from records without a negative count
C14_Witness ==
    /\ fcall.fn = "filter" /\ Returned
    /\ \A k \in Selected(fcall.level, fcall.value) : Rows[k][fcall.variable] >= 0
    /\ Len(Ret) >= 2
    /\ Ret[1].value < Ret[2].value

\* the tables as the last retrieval stored them: that call handed back what
\* it stored
AsRetrieved ==
    IF kind = "RKI" THEN [data |-> returned[1], jhu |-> <<JUnset, JUnset, JUnset>>]
    ELSE [data |-> Unset, jhu |-> returned]

\* outcome and value of a call
Outcome(r) == [outcome |-> r.outcome, ret |-> r.ret]

\* what the call under way hands back when it is made on the tables t
ResultsOn(t) ==
    IF fcall.fn = "filter"
      THEN {Outcome(filter_call(t.data, fcall.begin, fcall.end, fcall.variable,
                                fcall.date_type, fcall.level, fcall.value, "ok"))}
    ELSE IF fcall.fn = "filter_all_bundesland"
      THEN {Outcome(filter_all_bundesland_call(t.data, fcall.begin, fcall.end,
                                               fcall.variable, fcall.date_type, "ok"))}
    ELSE IF fcall.fn = "get_confirmed_deaths_recovered"
      THEN {Outcome(get_confirmed_deaths_recovered(t.jhu[1], t.jhu[2], t.jhu[3],
                       fcall.level, fcall.value, fcall.begin, fcall.end, "ok"))}
    ELSE LET cs == IF kind = "RKI"
                     THEN {filter_call(t.data, fcall.begin, fcall.end, fcall.variable,
                                       fcall.date_type,
                                       LevelOf(fcall.level, fcall.value),
                                       ValueOf(fcall.level, fcall.value), "ok")}
                     ELSE {jhu_cumulative(t.jhu, fcall.variable, fcall.level,
                                          fcall.value, fcall.begin, fcall.end, sl) :
                              sl \in JhuSliceOutcomes(fcall.variable, fcall.begin,
                                                      fcall.end)}
         IN IF fcall.fn = "get" THEN {Outcome(c) : c \in cs}
            ELSE {Outcome(new_of(c)) : c \in cs}

\* C15: accessor calls leave the stored tables as the last retrieval stored
\* them, and every call hands back what the same call hands back on those
\* tables, so that calls with the same arguments agree whatever calls were
\* made in between
C15_ReadOnly ==
    /\ data = AsRetrieved.data
    /\ kind = "JHU" => <<confirmed, deaths, recovered>> = AsRetrieved.jhu
    /\ fcall.fn # "none" => Outcome(fcall) \in ResultsOn(AsRetrieved)

\* a call with omitted end points has returned on a table whose first row is
\* dated after its last row
C15_Witness ==
    /\ fcall.fn = "filter_all_bundesland" /\ Returned
    /\ fcall.begin.type = "None" /\ fcall.end.type = "None"
    /\ Rows[1][fcall.date_type] > Rows[Len(Rows)][fcall.date_type]

\* the selector of the filter call under way picks no record
SelectsNothing == fcall.level # None /\ Selected(fcall.level, fcall.value) = {}

\* C16 as stated: on a populated adapter a filter call with valid arguments
\* whose selector matches no row returns an empty series and does not raise,
\* with the end points given or omitted
C16_EmptyNotError ==
    (fcall.fn = "filter" /\ data.set /\ SelectsNothing) => (Returned /\ Ret = <<>>)

\* C16: on a stored table that holds at least one record a filter call with
\* valid arguments whose selector matches no row returns an empty series and
\* does not raise, with the end points given or omitted
C16_EmptyNotErrorOnRecords ==
    (fcall.fn = "filter" /\ data.set /\ Len(Rows) >= 1 /\ SelectsNothing)
        => (Returned /\ Ret = <<>>)

\* a call for a state without records, end points omitted, has returned the
\* empty series
C16_Witness ==
    /\ fcall.fn = "filter" /\ Returned
    /\ fcall.level = "Bundesland" /\ fcall.value = "Atlantis"
    /\ fcall.begin.type = "None" /\ fcall.end.type = "None"
    /\ Len(Rows) >= 1
    /\ Ret = <<>>

\* the stored table of a JHU metric
TableOf(m) ==
    IF m = "confirmed" THEN confirmed ELSE IF m = "deaths" THEN deaths ELSE recovered

\* the position of a date in the index of a stored table
DateIndex(t, d) == CHOOSE i \in 1..Len(t.dates) : t.dates[i] = d

\* an argument that is absent: None, or the text "None" the accessors take
\* for it
Absent(x) == x = None \/ x = "None"

\* the (country, state) columns a selector stands for: all of them, those of
\* the country, or the single one
Chosen(t, country, state) ==
    IF Absent(country) /\ Absent(state) THEN 1..Len(t.keys)
    ELSE IF Absent(state) THEN {j \in 1..Len(t.keys) : t.keys[j][1] = country}
    ELSE {j \in 1..Len(t.keys) : t.keys[j] = <<country, state>>}

\* sum of the cells of the date at position i over a set of columns
RECURSIVE Total(_, _, _)
Total(t, i, S) ==
    IF S = {} THEN 0
    ELSE LET j == CHOOSE x \in S : TRUE IN t.cells[i][j] + Total(t, i, S \ {j})

\* C17: get_confirmed and get_deaths hand back, at every date, the sum over
\* all (country, state) columns when country and state are absent, the sum
\* over the states of the country when only the country is given, and the
\* single column when both are given
C17_Aggregation ==
    (/\ kind = "JHU" /\ fcall.fn = "get" /\ fcall.variable \in {"confirmed", "deaths"}
     /\ Returned
     /\ ~(Absent(fcall.level) /\ ~Absent(fcall.value)))
        => \A i \in 1..Len(Ret) :
              Ret[i].value =
                 Total(TableOf(fcall.variable),
                       DateIndex(TableOf(fcall.variable), Ret[i].date),
                       Chosen(TableOf(fcall.variable), fcall.level, fcall.value))

\* the sum over the states of a country has been handed back for the last
\* date, and differs from the sum over all regions and from either state
C17_Witness ==
    /\ kind = "JHU" /\ fcall.fn = "get" /\ fcall.variable = "confirmed" /\ Returned
    /\ fcall.level = "Australia" /\ fcall.value = None
    /\ Len(Ret) >= 1
    /\ Ret[Len(Ret)].date = MaxDate
    /\ Ret[Len(Ret)].value # Total(confirmed, MaxDate, 1..Len(confirmed.keys))
    /\ \A j \in 1..Len(confirmed.keys) : Ret[Len(Ret)].value # confirmed.cells[MaxDate][j]

\* position of a metric among the tables a JHU call hands back
ReturnedAt(m) ==
    IF op # "all" THEN 1
    ELSE IF m = "confirmed" THEN 1 ELSE IF m = "deaths" THEN 2 ELSE 3

AllThree ==
    get_confirmed_deaths_recovered(confirmed, deaths, recovered, fcall.level,
                                   fcall.value, fcall.begin, fcall.end, "ok")

\* C19: whenever get_confirmed_deaths_recovered returns for the arguments of
\* a get_recovered call, get_recovered returns a series indexed by date that
\* equals the 'recovered' column of that frame
C19_RecoveredLikeOthers ==
    (/\ kind = "JHU" /\ fcall.fn = "get" /\ fcall.variable = "recovered"
     /\ AllThree.outcome = "ok")
        => /\ Returned
           /\ fcall.ret[1].by = "date"
           /\ Len(Ret) = Len(AllThree.ret[1].rows)
           /\ \A i \in 1..Len(Ret) :
                 /\ Ret[i].date = AllThree.ret[1].rows[i].date
                 /\ Ret[i].value = AllThree.ret[1].rows[i].recovered

\* the stored table was read from the snapshot file
FromSnapshot == data.set /\ data.date = "date"

\* the other date kind
OtherDateType(t) == IF t = "date" THEN "date_ref" ELSE "date"

FinerLevel ==
    IF fcall.value # None THEN <<"Landkreis", fcall.value>>
    ELSE IF fcall.level # None THEN <<"Bundesland", fcall.level>>
    ELSE <<None, None>>

\* the same accessor called with the landkreis argument alone
WithLandkreisAlone ==
    rki_get(data, CHOOSE m \in MetricNames : VariableOf(m) = fcall.variable,
            None, fcall.value, fcall.begin, fcall.end, fcall.date_type, "ok")

\* C21: an RKI get_<metric> call hands back the cumulative sums over the
\* records of the landkreis when one is given, whatever bundesland is given
\* with it, over the records of the bundesland when only that is given, and
\* over all records when neither is given; with both given the result is that
\* of the call with the landkreis alone
C21_FinerLevelFirst ==
    (kind = "RKI" /\ fcall.fn = "get") =>
        /\ Returned =>
              \A i \in 1..Len(Ret) :
                 Ret[i].value = CumulativeAt(FinerLevel[1], FinerLevel[2], Ret[i].date)
        /\ (fcall.level # None /\ fcall.value # None)
              => Outcome(fcall) = Outcome(WithLandkreisAlone)

\* a call with a bundesland and a landkreis of another state has returned the
\* sums of the landkreis, on a table that holds records of the bundesland too
C21_Witness ==
    /\ kind = "RKI" /\ fcall.fn = "get" /\ Returned
    /\ fcall.level = "Bayern" /\ fcall.value = "LK Beta"
    /\ BundeslandOf(fcall.value) # fcall.level
    /\ Len(Ret) >= 1
    /\ Ret[Len(Ret)].value # 0
    /\ \E k \in 1..Len(Rows) : Rows[k].Bundesland = "Bayern"

====
